---- MODULE Spec2Model ----
(***************************************************************************)
(* The tool-calling conversational loop of src/main.py (function run).     *)
(* The inference client (client.chat.completions.create), the tool         *)
(* executor (session.call_tool) and standard input are the environment:    *)
(* each of their outcomes (a value returned, an exception raised) is a     *)
(* nondeterministic choice.  Everything between two such calls is one      *)
(* action of the loop.                                                     *)
(***************************************************************************)
EXTENDS Integers, Sequences, FiniteSets, TLC

\* ---------------------------------------------------------------- bounds
\* Prompts read in one run.
MaxTurns == 2
\* Tool-call requests the inference client issues in one run (ids 1..MaxCallIds).
MaxCallIds == 2
\* Candidate completions in one inference response.
MaxChoices == 2

\* ---------------------------------------------------------------- values
\* Lines the user may type; a blank line is a line like any other.
UserLines == {"", "list my resources"}
\* What a tool-call request may carry, as (name, serialized arguments): a tool the
\* subprocess may advertise with well-formed arguments, the same with a truncated
\* payload, and a tool it never advertises.
ToolRequests == { <<"list_resources", "{}">>, <<"list_resources", "{">>, <<"no_such_tool", "{}">> }
\* What session.list_tools() may return: nothing, or two tools.
Discoveries ==
  { << >>,
    << [name |-> "list_resources", description |-> "List resources", inputSchema |-> "no parameters"],
       [name |-> "get_group", description |-> "Get a resource group", inputSchema |-> "one string"] >> }

NoId == 0
NoCalls == << >>
FirstContent == "triage"
FinalContent == "answer"
AlternativeContent == "alternative"
ToolOkContent == "[]"
ToolErrorContent == "tool error"

VARIABLES
  pc,               \* where the loop is: the call it is blocked in, or the step it is at
  stdin,            \* "open", or "closed" once a read has met end-of-input
  session,          \* the tool subprocess and its session: "none" | "open" | "released"
  tools,            \* what session.list_tools() returned
  available_tools,  \* the registry passed to every inference call
  user_input,       \* the latest line read
  messages,         \* the conversation state
  response_message, \* response.choices[0].message of the latest first call
  idx,              \* position of the for loop in response_message.tool_calls
  function_args,    \* json.loads of the current request's arguments
  final_response,   \* history: the final response of the current iteration
  printed,          \* history: what the current iteration printed as the answer
  sent,             \* history: the messages argument of the latest inference call
  sent_tools,       \* history: the tools argument of the latest inference call
  events,           \* history: what the current iteration of the loop did, in order
  turn,             \* history: prompts read so far
  turnStart,        \* history: Len(messages) when the current turn's prompt was read
  nextId,           \* environment: the next tool-call id the inference client issues
  failed,           \* history: a call or a parse has failed in this run
  interrupted       \* history: the process was interrupted

vars == << pc, stdin, session, tools, available_tools, user_input, messages, response_message, idx, function_args,
           final_response, printed, sent, sent_tools, events, turn, turnStart, nextId,
           failed, interrupted >>

\* ---------------------------------------------------------------- messages
\* The three shapes of a message, as one record type.
UserMessage(line) ==
  [role |-> "user", content |-> line, tool_calls |-> NoCalls, tool_call_id |-> NoId, name |-> ""]

AssistantMessage(content, calls) ==
  [role |-> "assistant", content |-> content, tool_calls |-> calls, tool_call_id |-> NoId, name |-> ""]

\* Variant: a tool message that carries an id no request has.
ToolMessage_WrongId(tool_call, content) ==
  [role |-> "tool", content |-> content, tool_calls |-> NoCalls,
   tool_call_id |-> tool_call.id + MaxCallIds + 1, name |-> tool_call.name]

\* The tool-role message of lines 112-117.
ToolMessage(tool_call, content) ==
  [role |-> "tool", content |-> content, tool_calls |-> NoCalls,
   tool_call_id |-> tool_call.id, name |-> tool_call.name]

\* The registry entry of one discovered tool.
FormatTool(tool) ==
  [type |-> "function",
   function |-> [name |-> tool.name, description |-> tool.description, parameters |-> tool.inputSchema]]

\* Variant: the registry lists the tools last first.
FormatTools_Reversed(descriptors) ==
  [k \in 1..Len(descriptors) |-> FormatTool(descriptors[Len(descriptors) + 1 - k])]

\* The registry: one entry per discovered tool, in discovery order.
FormatTools(descriptors) == [k \in 1..Len(descriptors) |-> FormatTool(descriptors[k])]

\* json.loads on the payloads above: the parsed mapping (a set of key/value
\* pairs), or a JSONDecodeError.
JsonLoads(payload) ==
  CASE payload = "{}" -> [ok |-> TRUE, value |-> {}]
    [] payload = "{"  -> [ok |-> FALSE, value |-> {}]

Event(op, id) == [op |-> op, id |-> id]

\* ---------------------------------------------------------------- the loop
Init ==
  /\ pc = "Startup"
  /\ stdin = "open"
  /\ session = "none"
  /\ tools = << >>
  /\ available_tools = << >>
  /\ user_input = ""
  /\ final_response = [choices |-> << >>]
  /\ messages = << >>
  /\ response_message = AssistantMessage("", NoCalls)
  /\ idx = 0
  /\ function_args = {}
  /\ printed = << >>
  /\ sent = << >>
  /\ sent_tools = << >>
  /\ events = << >>
  /\ turn = 0
  /\ turnStart = 0
  /\ nextId = 1
  /\ failed = FALSE
  /\ interrupted = FALSE

\* Session start, tool discovery and registry construction.
Startup ==
  /\ pc = "Startup"
  /\ session' = "open"
  /\ \E discovered \in Discoveries :
       /\ tools' = discovered
       /\ available_tools' = FormatTools(discovered)
  /\ pc' = "AwaitingInput"
  /\ UNCHANGED << stdin, messages, response_message, idx, function_args, printed, sent,
                  sent_tools, events, turn, turnStart, nextId, failed, interrupted,
                  user_input, final_response >>

\* Variant: a handler that drops what the turn has appended.
HandleException_Rollback ==
  /\ pc' = "AwaitingInput"
  /\ messages' = SubSeq(messages, 1, turnStart)
  /\ UNCHANGED << available_tools, response_message, idx, function_args, sent, sent_tools,
                  turn, turnStart, nextId, interrupted, tools, session, user_input >>

\* Variant: a handler that lets the failure end the process.
HandleException_Reraise ==
  /\ pc' = "Terminated"
  /\ UNCHANGED messages
  /\ UNCHANGED << available_tools, response_message, idx, function_args, sent, sent_tools,
                  turn, turnStart, nextId, interrupted, tools, session, user_input >>

\* Variant: a handler that appends a corrective message.
HandleException_Corrective ==
  /\ pc' = "AwaitingInput"
  /\ messages' = Append(messages, AssistantMessage("error", NoCalls))
  /\ UNCHANGED << available_tools, response_message, idx, function_args, sent, sent_tools,
                  turn, turnStart, nextId, interrupted, tools, session, user_input >>

\* Variant: a handler that closes the session on its way back to the prompt.
HandleException_Release ==
  /\ pc' = "AwaitingInput"
  /\ UNCHANGED messages
  /\ session' = "released"
  /\ UNCHANGED << available_tools, response_message, idx, function_args, sent, sent_tools,
                  turn, turnStart, nextId, interrupted, tools, user_input >>

\* except Exception: log, print, and go round the while loop again.
HandleException ==
  /\ pc' = "AwaitingInput"
  /\ UNCHANGED messages
  /\ UNCHANGED << available_tools, response_message, idx, function_args, sent, sent_tools,
                  turn, turnStart, nextId, interrupted, tools, session, user_input >>

\* A call or a parse of the current turn raises: the handler runs.
Raise(op, id) ==
  /\ events' = Append(events, Event(op, id))
  /\ failed' = TRUE
  /\ HandleException
  /\ UNCHANGED << stdin, printed, final_response >>

\* Variant: an empty line is not appended to the conversation state.
ReadPrompt_SkipBlank ==
  /\ pc = "AwaitingInput"
  /\ stdin = "open"
  /\ turn < MaxTurns
  /\ \E line \in UserLines :
       /\ user_input' = line
       /\ messages' = IF line = "" THEN messages ELSE Append(messages, UserMessage(line))
       /\ sent' = IF line = "" THEN messages ELSE Append(messages, UserMessage(line))
  /\ final_response' = [choices |-> << >>]
  /\ sent_tools' = available_tools
  /\ turn' = turn + 1
  /\ turnStart' = Len(messages)
  /\ events' = << Event("input", NoId), Event("infer1", NoId) >>
  /\ printed' = << >>
  /\ pc' = "FirstInference"
  /\ UNCHANGED << stdin, available_tools, response_message, idx, function_args, nextId,
                  failed, interrupted, tools, session >>

\* input() returns a line: append the user message, issue the first call.
ReadPrompt ==
  /\ pc = "AwaitingInput"
  /\ stdin = "open"
  /\ turn < MaxTurns
  /\ \E line \in UserLines :
       /\ user_input' = line
       /\ messages' = Append(messages, UserMessage(line))
       /\ sent' = Append(messages, UserMessage(line))
  /\ final_response' = [choices |-> << >>]
  /\ sent_tools' = available_tools
  /\ turn' = turn + 1
  /\ turnStart' = Len(messages)
  /\ events' = << Event("input", NoId), Event("infer1", NoId) >>
  /\ printed' = << >>
  /\ pc' = "FirstInference"
  /\ UNCHANGED << stdin, available_tools, response_message, idx, function_args, nextId,
                  failed, interrupted, tools, session >>

\* input() raises EOFError, an Exception: the handler runs and the loop goes on.
ReadPromptEOF ==
  /\ pc = "AwaitingInput"
  /\ stdin' = "closed"
  /\ events' = << Event("eof", NoId) >>
  /\ printed' = << >>
  /\ final_response' = [choices |-> << >>]
  /\ UNCHANGED failed
  /\ HandleException

\* The first call raises (network, authentication, API error).
FirstInferenceFail ==
  /\ pc = "FirstInference"
  /\ Raise("infer1_fail", NoId)

\* The tool-call requests of a first response: n requests with fresh ids.
ToolCalls(n) ==
  { [k \in 1..n |-> [id |-> nextId + k - 1, name |-> f[k][1], arguments |-> f[k][2]]] :
      f \in [1..n -> ToolRequests] }

\* The candidate completions after the first one, each with a request of its own
\* (ids below zero keep them apart from the first one's).
OtherChoices(n) ==
  [k \in 1..n |->
     [message |-> AssistantMessage(AlternativeContent,
                    << [id |-> 0 - k, name |-> "list_resources", arguments |-> "{}"] >>)]]

\* Variant: with no tool calls the first response is the answer, and no second
\* call is made.
FirstInferenceReturn_SkipFinal ==
  /\ pc = "FirstInference"
  /\ \E n \in 0..(MaxCallIds + 1 - nextId), c \in 0..(MaxChoices - 1) :
       \E calls \in ToolCalls(n) :
         LET response == [choices |-> << [message |-> AssistantMessage(FirstContent, calls)] >>
                                         \o OtherChoices(c)]
         IN /\ response_message' = response.choices[1].message
            /\ messages' = Append(messages, response.choices[1].message)
            /\ nextId' = nextId + n
            /\ UNCHANGED << sent, sent_tools >>
            /\ IF response.choices[1].message.tool_calls # NoCalls
                 THEN /\ idx' = 1
                      /\ pc' = "ExecutingTools"
                      /\ events' = Append(events, Event("assistant", NoId))
                      /\ UNCHANGED printed
                 ELSE /\ idx' = idx
                      /\ pc' = "AwaitingInput"
                      /\ events' = events \o << Event("assistant", NoId), Event("present", NoId) >>
                      /\ printed' = << response.choices[1].message.content >>
  /\ UNCHANGED << stdin, available_tools, function_args, turn, turnStart, failed,
                  interrupted, tools, session, user_input, final_response >>

\* The first call returns: append choices[0].message; with tool calls enter the
\* for loop, without them issue the final call.
FirstInferenceReturn ==
  /\ pc = "FirstInference"
  /\ \E n \in 0..(MaxCallIds + 1 - nextId), c \in 0..(MaxChoices - 1) :
       \E calls \in ToolCalls(n) :
         LET response == [choices |-> << [message |-> AssistantMessage(FirstContent, calls)] >>
                                         \o OtherChoices(c)]
         IN /\ response_message' = response.choices[1].message
            /\ messages' = Append(messages, response.choices[1].message)
            /\ nextId' = nextId + n
            /\ IF response.choices[1].message.tool_calls # NoCalls
                 THEN /\ idx' = 1
                      /\ pc' = "ExecutingTools"
                      /\ events' = Append(events, Event("assistant", NoId))
                      /\ UNCHANGED << sent, sent_tools >>
                 ELSE /\ idx' = idx
                      /\ pc' = "FinalInference"
                      /\ events' = events \o << Event("assistant", NoId), Event("infer2", NoId) >>
                      /\ sent' = Append(messages, response.choices[1].message)
                      /\ sent_tools' = available_tools
  /\ UNCHANGED << stdin, available_tools, function_args, printed, turn, turnStart, failed,
                  interrupted, tools, session, user_input, final_response >>

\* The request the for loop is at.
tool_call == response_message.tool_calls[idx]

\* Variant: a request naming a tool absent from the registry is rejected by the
\* loop and never reaches the tool executor.
ParseArguments_CheckRegistry ==
  /\ pc = "ExecutingTools"
  /\ JsonLoads(tool_call.arguments).ok
  /\ IF tool_call.name \in { available_tools[k].function.name : k \in 1..Len(available_tools) }
       THEN /\ function_args' = JsonLoads(tool_call.arguments).value
            /\ events' = Append(events, Event("call_tool", tool_call.id))
            /\ pc' = "CallingTool"
            /\ UNCHANGED << stdin, available_tools, messages, response_message, idx, printed,
                            sent, sent_tools, turn, turnStart, nextId, failed, interrupted,
                            tools, session, user_input, final_response >>
       ELSE Raise("tool_fail", tool_call.id)

\* json.loads(tool_call.function.arguments) succeeds: invoke the tool executor.
ParseArguments ==
  /\ pc = "ExecutingTools"
  /\ JsonLoads(tool_call.arguments).ok
  /\ function_args' = JsonLoads(tool_call.arguments).value
  /\ events' = Append(events, Event("call_tool", tool_call.id))
  /\ pc' = "CallingTool"
  /\ UNCHANGED << stdin, available_tools, messages, response_message, idx, printed, sent,
                  sent_tools, turn, turnStart, nextId, failed, interrupted, tools, session,
                  user_input, final_response >>

\* json.loads raises JSONDecodeError.
ParseArgumentsFail ==
  /\ pc = "ExecutingTools"
  /\ ~ JsonLoads(tool_call.arguments).ok
  /\ Raise("parse_fail", tool_call.id)

RegistryNames == { available_tools[k].function.name : k \in 1..Len(available_tools) }

\* What session.call_tool may return for a tool name: content, or an error
\* result (isError); a name the subprocess does not know has no content to return.
ToolResults(name) ==
  IF name \in RegistryNames THEN { [content |-> ToolOkContent], [content |-> ToolErrorContent] }
                            ELSE { [content |-> ToolErrorContent] }

\* Variant: the request is tried again after its result has been appended.
ToolReturn_Retry ==
  /\ pc = "CallingTool"
  /\ \E result \in ToolResults(tool_call.name) :
       /\ messages' = Append(messages, ToolMessage(tool_call, result.content))
       /\ IF Cardinality({ k \in 1..Len(events) :
                             events[k].op = "call_tool" /\ events[k].id = tool_call.id }) = 1
            THEN /\ idx' = idx
                 /\ pc' = "ExecutingTools"
                 /\ events' = Append(events, Event("tool_msg", tool_call.id))
                 /\ UNCHANGED << sent, sent_tools >>
            ELSE /\ idx' = idx
                 /\ pc' = "FinalInference"
                 /\ events' = events \o << Event("tool_msg", tool_call.id), Event("infer2", NoId) >>
                 /\ sent' = Append(messages, ToolMessage(tool_call, result.content))
                 /\ sent_tools' = available_tools
  /\ UNCHANGED << stdin, available_tools, response_message, function_args, printed, turn,
                  turnStart, nextId, failed, interrupted, tools, session, user_input,
                  final_response >>

\* session.call_tool returns: append the tool message, go to the next request,
\* and after the last one issue the final call.
ToolReturn ==
  /\ pc = "CallingTool"
  /\ \E result \in ToolResults(tool_call.name) :
       /\ messages' = Append(messages, ToolMessage(tool_call, result.content))
       /\ IF idx < Len(response_message.tool_calls)
            THEN /\ idx' = idx + 1
                 /\ pc' = "ExecutingTools"
                 /\ events' = Append(events, Event("tool_msg", tool_call.id))
                 /\ UNCHANGED << sent, sent_tools >>
            ELSE /\ idx' = idx
                 /\ pc' = "FinalInference"
                 /\ events' = events \o << Event("tool_msg", tool_call.id), Event("infer2", NoId) >>
                 /\ sent' = Append(messages, ToolMessage(tool_call, result.content))
                 /\ sent_tools' = available_tools
  /\ UNCHANGED << stdin, available_tools, response_message, function_args, printed, turn,
                  turnStart, nextId, failed, interrupted, tools, session, user_input,
                  final_response >>

\* session.call_tool raises (the subprocess is unreachable, a protocol error).
ToolFail ==
  /\ pc = "CallingTool"
  /\ Raise("tool_fail", tool_call.id)

\* The candidate completions of a final response: the answer, then alternatives.
FinalChoices(c) ==
  [k \in 1..c |->
     [message |-> AssistantMessage(IF k = 1 THEN FinalContent ELSE AlternativeContent, NoCalls)]]

\* Variant: the final step also appends the answer it prints.
FinalInferenceReturn_Append ==
  /\ pc = "FinalInference"
  /\ \E c \in 1..MaxChoices :
       /\ final_response' = [choices |-> FinalChoices(c)]
       /\ printed' = [k \in 1..c |-> FinalChoices(c)[k].message.content]
       /\ messages' = Append(messages, FinalChoices(c)[1].message)
  /\ events' = Append(events, Event("present", NoId))
  /\ pc' = "AwaitingInput"
  /\ UNCHANGED << stdin, session, tools, available_tools, user_input, response_message, idx,
                  function_args, sent, sent_tools, turn, turnStart, nextId, failed, interrupted >>

\* Variant: only the first candidate completion is printed.
FinalInferenceReturn_PrintFirst ==
  /\ pc = "FinalInference"
  /\ \E c \in 1..MaxChoices :
       /\ final_response' = [choices |-> FinalChoices(c)]
       /\ printed' = << FinalChoices(c)[1].message.content >>
  /\ events' = Append(events, Event("present", NoId))
  /\ pc' = "AwaitingInput"
  /\ UNCHANGED messages
  /\ UNCHANGED << stdin, session, tools, available_tools, user_input, response_message, idx,
                  function_args, sent, sent_tools, turn, turnStart, nextId, failed, interrupted >>

\* The final call returns one or more candidate completions: print the content of
\* every one of them, in order, and go round the while loop again.
FinalInferenceReturn ==
  /\ pc = "FinalInference"
  /\ \E c \in 1..MaxChoices :
       /\ final_response' = [choices |-> FinalChoices(c)]
       /\ printed' = [k \in 1..c |-> FinalChoices(c)[k].message.content]
  /\ events' = Append(events, Event("present", NoId))
  /\ pc' = "AwaitingInput"
  /\ UNCHANGED messages
  /\ UNCHANGED << stdin, session, tools, available_tools, user_input, response_message, idx,
                  function_args, sent, sent_tools, turn, turnStart, nextId, failed, interrupted >>

\* The final call raises.
FinalInferenceFail ==
  /\ pc = "FinalInference"
  /\ Raise("infer2_fail", NoId)

\* KeyboardInterrupt is no Exception: nothing in the loop catches it.
Interrupt ==
  /\ pc \notin {"Startup", "Terminated"}
  /\ pc' = "Terminated"
  /\ interrupted' = TRUE
  /\ session' = "released"
  /\ UNCHANGED << stdin, available_tools, messages, response_message, idx, function_args,
                  printed, sent, sent_tools, events, turn, turnStart, nextId, failed, tools,
                  user_input, final_response >>

Next ==
  \/ Startup
  \/ ReadPrompt
  \/ ReadPromptEOF
  \/ FirstInferenceReturn
  \/ FirstInferenceFail
  \/ ParseArguments
  \/ ParseArgumentsFail
  \/ ToolReturn
  \/ ToolFail
  \/ FinalInferenceReturn
  \/ FinalInferenceFail
  \/ Interrupt

Spec == Init /\ [][Next]_vars

\* ---------------------------------------------------------------- reading the state
\* The messages the current turn has appended, its user message first.
TurnBlock == SubSeq(messages, turnStart + 1, Len(messages))

HasEvent(op) == \E k \in 1..Len(events) : events[k].op = op

\* The current turn's first call has returned; response_message is this turn's.
FirstReturned == HasEvent("assistant")

Requests == response_message.tool_calls

RequestIds == { Requests[k].id : k \in 1..Len(Requests) }

IsTool(m) == m.role = "tool"

\* The tool_call_ids of the tool-role messages of a sequence, in order.
ToolIds(seq) == [k \in 1..Len(SelectSeq(seq, IsTool)) |-> SelectSeq(seq, IsTool)[k].tool_call_id]

Range(seq) == { seq[k] : k \in 1..Len(seq) }

\* The loop is back at the prompt after a turn.
TurnOver == pc = "AwaitingInput" /\ turn > 0

\* ---------------------------------------------------------------- claims
\* C1: in every turn whose first response carries K >= 1 tool-call requests, exactly
\* K tool-role messages are appended, one per request id, and all of them before the
\* final call is issued.  (Fails: a turn cut short by C2's or C3's failure ends with
\* fewer than K.)
C1_EveryRequestAnswered ==
  (FirstReturned /\ Len(Requests) >= 1) =>
    /\ TurnOver => (Len(ToolIds(TurnBlock)) = Len(Requests) /\ Range(ToolIds(TurnBlock)) = RequestIds)
    /\ HasEvent("infer2") =>
         (Len(ToolIds(sent)) >= Len(Requests) /\ RequestIds \subseteq Range(ToolIds(sent)))

\* C2: a request whose arguments do not parse still gets a tool-role message, an
\* error result, and the other requests of the same assistant message are executed.
C2_ParseFailureIsolated ==
  \A k \in 1..Len(events) :
    events[k].op = "parse_fail" =>
      /\ \E m \in Range(TurnBlock) :
           IsTool(m) /\ m.tool_call_id = events[k].id /\ m.content = ToolErrorContent
      /\ TurnOver => \A r \in RequestIds \ {events[k].id} :
                       \E j \in 1..Len(events) : events[j].id = r

\* C3: a tool executor failure on one request is an error result for that request;
\* the other requests are executed and the turn reaches the final call.
C3_ToolFailureIsolated ==
  \A k \in 1..Len(events) :
    events[k].op = "tool_fail" =>
      /\ \E m \in Range(TurnBlock) : IsTool(m) /\ m.tool_call_id = events[k].id
      /\ TurnOver => /\ \A r \in RequestIds \ {events[k].id} :
                          \E j \in 1..Len(events) : events[j].id = r
                     /\ HasEvent("infer2")

\* C4: after N turns with no tool-call request and no failed call, the conversation
\* state is exactly N (user, assistant) pairs, each assistant message the first
\* response's; no final response is in it.
C4_ToolFreeHistory ==
  (pc = "AwaitingInput" /\ nextId = 1 /\ ~ failed) =>
    /\ Len(messages) = 2 * turn
    /\ \A k \in 1..turn :
         /\ messages[2 * k - 1].role = "user"
         /\ messages[2 * k].role = "assistant"
         /\ messages[2 * k].content = FirstContent

C4_Witness == pc = "AwaitingInput" /\ nextId = 1 /\ ~ failed /\ turn >= 2

\* C5: when the first call of a turn fails, the conversation state is what was sent
\* on that call (it ends with the turn's user message, nothing added or removed), no
\* tool was invoked, no final call was issued, and the loop is back at the prompt.
C5_FirstInferenceFailure ==
  (HasEvent("infer1_fail") /\ ~ interrupted) =>
    /\ pc = "AwaitingInput"
    /\ messages = sent
    /\ Len(messages) = turnStart + 1
    /\ messages[Len(messages)].role = "user"
    /\ ~ HasEvent("call_tool")
    /\ ~ HasEvent("infer2")

C5_Witness == HasEvent("infer1_fail") /\ pc = "AwaitingInput" /\ turnStart > 0

\* C6: once reading the prompt has failed with end-of-input the process has
\* terminated: the loop is not at the prompt again.
C6_EofTerminates == stdin = "closed" => pc = "Terminated"

\* C7: every tool-role message answers a request of an assistant message before it.
C7_ToolMessagesCorrelated ==
  \A k \in 1..Len(messages) :
    IsTool(messages[k]) =>
      \E j \in 1..(k - 1) :
        /\ messages[j].role = "assistant"
        /\ \E c \in 1..Len(messages[j].tool_calls) :
             messages[j].tool_calls[c].id = messages[k].tool_call_id

C7_Witness == \E k \in 1..Len(messages) : IsTool(messages[k]) /\ k > turnStart /\ turn >= 2

\* C8: every step, failing ones included, leaves the old conversation state as a
\* prefix of the new one.
C8_AppendOnly ==
  [][ /\ Len(messages) <= Len(messages')
      /\ SubSeq(messages', 1, Len(messages)) = messages ]_vars

C8_Witness == pc = "AwaitingInput" /\ HasEvent("tool_fail") /\ Len(TurnBlock) >= 3

\* A step of the program other than reading the prompt: a call returns or raises, or
\* the loop parses the next request.
Step ==
  \/ Startup
  \/ FirstInferenceReturn \/ FirstInferenceFail
  \/ ParseArguments \/ ParseArgumentsFail
  \/ ToolReturn \/ ToolFail
  \/ FinalInferenceReturn \/ FinalInferenceFail

\* The run no interrupt ends: the inference client and the tool executor always
\* return or fail and the loop's own steps are taken; the user need not type.
LiveNext == Step \/ ReadPrompt \/ ReadPromptEOF

Fairness == WF_vars(Step)

LiveSpec == Init /\ [][LiveNext]_vars /\ Fairness

\* The last thing the loop did was to catch a failure of a call or of parsing.
FailureCaught ==
  /\ Len(events) > 0
  /\ events[Len(events)].op \in {"infer1_fail", "parse_fail", "tool_fail", "infer2_fail"}

InTurn == pc \in {"FirstInference", "ExecutingTools", "CallingTool", "FinalInference"}

\* C9: after a failure of the first call, of parsing, of a tool execution or of the
\* final call the loop is at the prompt again and the process has not terminated;
\* and every turn that has started comes back to the prompt.
C9_FailuresReturnToPrompt ==
  /\ [](FailureCaught => pc = "AwaitingInput")
  /\ (InTurn ~> pc = "AwaitingInput")

C9_Witness ==
  /\ pc = "AwaitingInput"
  /\ FailureCaught
  /\ events[Len(events)].op = "infer2_fail"
  /\ HasEvent("tool_msg")

\* C10: no message of the conversation state, and none of a history sent on an
\* inference call, is a final response; from the moment the final call is issued the
\* conversation state stays what that call was sent; and a turn that completes has
\* grown the conversation state by 2 + K messages, K the number of its requests.
C10_FinalResponseNotPersisted ==
  /\ \A m \in Range(messages) \cup Range(sent) : m.content # FinalContent
  /\ HasEvent("infer2") => messages = sent
  /\ HasEvent("present") => Len(messages) = turnStart + 2 + Len(Requests)

C10_Witness ==
  /\ HasEvent("present")
  /\ Len(Requests) >= 1
  /\ turn >= 2
  /\ ~ failed

CountEvents(op) == Cardinality({ k \in 1..Len(events) : events[k].op = op })

\* C11: a turn that completes has issued exactly two inference calls; when the first
\* response carries no request, the final call is sent the conversation state as it
\* was once that response's message was appended, and no tool was invoked.
C11_TwoInferenceCalls ==
  /\ HasEvent("present") => (CountEvents("infer1") = 1 /\ CountEvents("infer2") = 1)
  /\ (FirstReturned /\ Len(Requests) = 0 /\ pc \in {"FinalInference", "AwaitingInput"}) =>
       /\ HasEvent("infer2")
       /\ Len(sent) = turnStart + 2
       /\ sent = SubSeq(messages, 1, turnStart + 2)
       /\ sent[Len(sent)] = response_message
       /\ ~ HasEvent("call_tool")

C11_Witness == HasEvent("present") /\ Len(Requests) = 0 /\ turn >= 2

\* The ids of the events of one kind, in the order they happened.
EventIds(op) ==
  LET Is(e) == e.op = op
  IN [k \in 1..Len(SelectSeq(events, Is)) |-> SelectSeq(events, Is)[k].id]

\* Position of the first event of a kind for an id, 0 when there is none.
EventAt(op, id) ==
  IF \E k \in 1..Len(events) : events[k].op = op /\ events[k].id = id
    THEN CHOOSE k \in 1..Len(events) :
           /\ events[k].op = op /\ events[k].id = id
           /\ \A j \in 1..(k - 1) : ~ (events[j].op = op /\ events[j].id = id)
    ELSE 0

\* Calls issued and not yet returned or failed.
InFlight ==
  CountEvents("infer1") + CountEvents("call_tool") + CountEvents("infer2")
  - CountEvents("assistant") - CountEvents("infer1_fail")
  - CountEvents("tool_msg") - CountEvents("tool_fail")
  - CountEvents("present") - CountEvents("infer2_fail")

C13_RegistryBuiltOnce ==
  /\ [](pc = "Startup" => (turn = 0 /\ events = << >>))
  /\ [](pc # "Startup" =>
          /\ Len(available_tools) = Len(tools)
          /\ \A k \in 1..Len(tools) :
               /\ available_tools[k].type = "function"
               /\ available_tools[k].function.name = tools[k].name
               /\ available_tools[k].function.description = tools[k].description
               /\ available_tools[k].function.parameters = tools[k].inputSchema)
  /\ [](HasEvent("infer1") => sent_tools = available_tools)
  /\ [][pc # "Startup" => (pc' # "Startup" /\ available_tools' = available_tools /\ tools' = tools)]_vars

C13_Witness == pc = "FinalInference" /\ Len(available_tools) = 2 /\ turn >= 2 /\ sent_tools = available_tools

\* C14: the tool subprocess and its session are acquired once, before the first
\* prompt is read; they stay open through every turn, failed turns included, and
\* are released when the loop is left, which only something uncaught can do.
C14_SessionScoped ==
  /\ [](pc = "Startup" => (session = "none" /\ turn = 0))
  /\ [](pc \in {"AwaitingInput", "FirstInference", "ExecutingTools", "CallingTool",
                "FinalInference"} => session = "open")
  /\ [](pc = "Terminated" => session = "released")
  /\ [][session' # session =>
          \/ (pc = "Startup" /\ session = "none" /\ session' = "open")
          \/ (pc' = "Terminated" /\ session = "open" /\ session' = "released")]_vars

C14_Witness == pc = "Terminated" /\ session = "released" /\ failed /\ turn >= 2

\* C15: the history sent with an inference call never holds an unresolved request:
\* every request of every assistant message in it has a tool-role message with the
\* same id later in it.  (Fails: the call after a turn cut short by C2's or C3's
\* failure is sent that turn's assistant message with its unanswered request.)
C15_NoUnresolvedRequestSent ==
  \A k \in 1..Len(sent) :
    \A j \in 1..Len(sent[k].tool_calls) :
      \E m \in (k + 1)..Len(sent) :
        IsTool(sent[m]) /\ sent[m].tool_call_id = sent[k].tool_calls[j].id

IsUser(m) == m.role = "user"

\* C16: every line read, an empty one included, appends exactly one user message
\* before the turn's first inference call is issued, and that call is sent the whole
\* conversation state, which ends with this user message.
C16_LineBecomesUserMessage ==
  /\ [][(pc = "AwaitingInput" /\ pc' = "FirstInference") =>
          /\ user_input' \in UserLines
          /\ messages' = Append(messages, UserMessage(user_input'))
          /\ sent' = messages']_vars
  /\ [](pc = "FirstInference" =>
          /\ events = << Event("input", NoId), Event("infer1", NoId) >>
          /\ Len(messages) = turnStart + 1
          /\ messages[Len(messages)] = UserMessage(user_input)
          /\ sent = messages)
  /\ [](Len(SelectSeq(messages, IsUser)) = turn)

C16_Witness ==
  /\ pc = "FirstInference"
  /\ turn >= 2
  /\ user_input = ""
  /\ sent[Len(sent)] = UserMessage("")
  /\ sent[1] = UserMessage("")

IsAssistant(m) == m.role = "assistant"

\* C17: of the first response only the first candidate completion is appended and
\* examined for requests; of the final response the content of every candidate
\* completion is printed, in the order returned, and none is appended.
C17_AsymmetricConsumption ==
  /\ [][(pc = "FirstInference" /\ pc' \in {"ExecutingTools", "FinalInference"}) =>
          /\ messages' = Append(messages, response_message')
          /\ response_message'.content = FirstContent]_vars
  /\ [](\A k \in 1..Len(messages) :
          /\ messages[k].content \notin {FinalContent, AlternativeContent}
          /\ \A j \in 1..Len(messages[k].tool_calls) : messages[k].tool_calls[j].id > 0
          /\ IsTool(messages[k]) => messages[k].tool_call_id > 0)
  /\ [](\A k \in 1..Len(events) : events[k].id >= 0)
  /\ [](FirstReturned =>
          /\ Len(SelectSeq(TurnBlock, IsAssistant)) = 1
          /\ messages[turnStart + 2] = response_message)
  /\ [](HasEvent("present") =>
          /\ Len(printed) = Len(final_response.choices)
          /\ \A k \in 1..Len(printed) : printed[k] = final_response.choices[k].message.content
          /\ messages = sent)

C17_Witness ==
  /\ HasEvent("present")
  /\ Len(final_response.choices) >= 2
  /\ printed = << FinalContent, AlternativeContent >>
  /\ Len(Requests) >= 1
  /\ messages = sent

\* C18: the conversation state is a concatenation of turn blocks, one per prompt
\* read: a user message, then at most one assistant message, then tool-role messages
\* answering a prefix of that assistant message's requests, in request order.
C18_TurnBlocks ==
  /\ Len(messages) > 0 => IsUser(messages[1])
  /\ Len(SelectSeq(messages, IsUser)) = turn
  /\ Len(SelectSeq(messages, IsAssistant)) <= Len(SelectSeq(messages, IsUser))
  /\ \A k \in 1..Len(messages) : IsUser(messages[k]) \/ IsAssistant(messages[k]) \/ IsTool(messages[k])
  /\ \A k \in 2..Len(messages) :
       /\ IsAssistant(messages[k]) => IsUser(messages[k - 1])
       /\ IsTool(messages[k]) =>
            \E a \in 1..(k - 1) :
              /\ IsAssistant(messages[a])
              /\ \A j \in (a + 1)..k : IsTool(messages[j])
              /\ k - a <= Len(messages[a].tool_calls)
              /\ messages[k].tool_call_id = messages[a].tool_calls[k - a].id

C18_Witness ==
  /\ pc = "AwaitingInput"
  /\ turn >= 2
  /\ failed
  /\ Len(Requests) = 2
  /\ Len(ToolIds(TurnBlock)) = 1
  /\ Len(messages) = 5

\* The request of this turn's assistant message that carries an id.
RequestOf(id) == Requests[CHOOSE j \in 1..Len(Requests) : Requests[j].id = id]

\* C19: the tool executor is invoked only after the turn's first call has returned
\* and before its final call is issued, only for a request of the assistant message
\* appended in that turn, and only once that request's arguments have parsed; the
\* name is not checked against the registry, so a request naming an absent tool is
\* forwarded all the same.
C19_ExecutorInvocation ==
  /\ [](\A k \in 1..Len(events) :
          events[k].op = "call_tool" =>
            /\ \E a \in 1..(k - 1) : events[a].op = "assistant"
            /\ \A j \in 1..k : events[j].op \notin {"infer2", "present"}
            /\ messages[turnStart + 2] = response_message
            /\ events[k].id \in RequestIds
            /\ JsonLoads(RequestOf(events[k].id).arguments).ok)
  /\ [](pc = "CallingTool" =>
          /\ events[Len(events)] = Event("call_tool", tool_call.id)
          /\ function_args = JsonLoads(tool_call.arguments).value)
  /\ [][(pc = "ExecutingTools" /\ JsonLoads(tool_call.arguments).ok) =>
          \/ pc' = "Terminated"
          \/ /\ pc' = "CallingTool"
             /\ events' = Append(events, Event("call_tool", tool_call.id))]_vars

C19_Witness ==
  /\ pc = "CallingTool"
  /\ Len(available_tools) = 2
  /\ tool_call.name \notin RegistryNames
  /\ events[Len(events)] = Event("call_tool", tool_call.id)

====
